---- MODULE Spec2Model ----
(***************************************************************************)
(* Model of immich-birthday: birthdays.py (the Immich people client:       *)
(* paged fetch of people without a birth date, and per-row birth date      *)
(* updates) and carddav.py (the CardDAV matcher: list the address book,    *)
(* fetch every vCard, match it against the input rows by name, normalise   *)
(* the birthday).                                                          *)
(*                                                                         *)
(* Text is modelled as a sequence of one-character strings, so that        *)
(* strip(), lower(), re.sub() and datetime.strptime()/strftime() are       *)
(* computed character by character.                                        *)
(***************************************************************************)
EXTENDS Integers, Sequences, FiniteSets, TLC

VARIABLES
    \* ---- date functions called on one input string (both tools)
    dpc,          \* "input" | "normalized" | "validated"
    raw,          \* the string passed in
    norm,         \* the outcome of normalize_bday
    valid,        \* what validate_birthdate returned
    \* ---- birthdays.py --fetch
    fpc,          \* "idle" | "paging" | "returned" | "done" | "crashed"
    page,         \* local variable page of get_people_without_birthdate
    results,      \* local variable results
    requested,    \* page numbers requested so far, in order
    served,       \* the responses the server gave, in order
    fetch_out,    \* the table written by --fetch, NoTable until written
    \* ---- birthdays.py --update
    upc,          \* "idle" | "start" | "rows" | "done" | "crashed"
    ufile,        \* the lines of the CSV input, header first
    silent,       \* --silent
    urow,         \* index in ufile of the next row of the reader
    puts,         \* PUT requests issued so far
    ulog,         \* per-row outcome lines written to stderr
    uerr,         \* the exception that ended the run, "" if none
    \* ---- carddav.py
    mpc,          \* "idle" | "main" | "list" | "cards" | "done" | "crashed" | "exited"
    cfg,          \* what the ini file, the environment and argv hold
    mfile,        \* the lines of the CSV input, header first
    listing,      \* the address book: one entry per D:response of PROPFIND
    rows,         \* rows passed to fetch_birthdates_from_carddav
    sleep,        \* CARDDAV_SLEEP passed to fetch_birthdates_from_carddav
    card_urls,    \* the hrefs extracted from the PROPFIND answer
    cidx,         \* index of the next card of the loop over card_urls
    updated_rows, \* local variable updated_rows
    events,       \* network and timer calls made so far, in order
    mlog,         \* which row each emitted line came from
    error,        \* the exception that ended the run, "" if none
    match_out     \* the table written by the matcher, NoTable until written

dateVars  == <<dpc, raw, norm, valid>>
fetchVars == <<fpc, page, results, requested, served, fetch_out>>
updVars   == <<upc, ufile, silent, urow, puts, ulog, uerr>>
matchVars == <<mpc, cfg, mfile, listing, rows, sleep, card_urls, cidx,
               updated_rows, events, mlog, error, match_out>>
vars == <<dateVars, fetchVars, updVars, matchVars>>

\* Python's None as a text value (no text has a character "None"), and a
\* table that was never written.
None    == <<"None">>
NoTable == <<"NoTable">>
\* Python's truth value of an optional text
Truthy(x) == x # None /\ x # <<>>

(***************************************************************************)
(* Characters and text                                                     *)
(***************************************************************************)
DigitChars == <<"0", "1", "2", "3", "4", "5", "6", "7", "8", "9">>
UpperChars == <<"A", "B", "C", "D", "E", "L", "N", "O", "X">>
LowerChars == <<"a", "b", "c", "d", "e", "l", "n", "o", "x">>

IsDigit(c) == \E i \in 1..10 : DigitChars[i] = c
DigitVal(c) == (CHOOSE i \in 1..10 : DigitChars[i] = c) - 1
\* str.isspace for the characters of the model
IsSpace(c) == c = " "

RECURSIVE ToInt(_)
\* int(s) for a string of decimal digits
ToInt(s) ==
    IF s = <<>> THEN 0
    ELSE 10 * ToInt(SubSeq(s, 1, Len(s) - 1)) + DigitVal(s[Len(s)])

Slice(s, i, n) == SubSeq(s, i, i + n - 1)

\* str.strip(): drop leading and trailing whitespace
strip(s) ==
    LET keep == {i \in 1..Len(s) : ~IsSpace(s[i])}
    IN  IF keep = {} THEN <<>>
        ELSE LET lo == CHOOSE i \in keep : \A j \in keep : i <= j
                 hi == CHOOSE i \in keep : \A j \in keep : i >= j
             IN  SubSeq(s, lo, hi)

LowerChar(c) ==
    IF \E i \in 1..Len(UpperChars) : UpperChars[i] = c
    THEN LowerChars[CHOOSE i \in 1..Len(UpperChars) : UpperChars[i] = c]
    ELSE c

\* str.lower()
lower(s) == [i \in 1..Len(s) |-> LowerChar(s[i])]

(***************************************************************************)
(* datetime.strptime: the directives' regular expressions, tried in the    *)
(* regex engine's order (alternatives left to right, backtracking), then   *)
(* the "unconverted data remains" test and the calendar test.              *)
(***************************************************************************)
CompactFmt == <<"Y", "m", "d">>             \* "%Y%m%d"
HyphenFmt  == <<"Y", "-", "m", "-", "d">>   \* "%Y-%m-%d"

At(s, i) == IF i >= 1 /\ i <= Len(s) THEN s[i] ELSE "EOS"

\* The lengths each directive can consume at position i, in the order the
\* regex engine tries them.
\*   %Y  (\d\d\d\d)
\*   %m  (1[0-2]|0[1-9]|[1-9])
\*   %d  (3[0-1]|[1-2]\d|0[1-9]|[1-9]| [1-9])
DirectiveAlts(tok, s, i) ==
    LET c1 == At(s, i)
        c2 == At(s, i + 1)
        nz(c) == IsDigit(c) /\ c # "0"
    IN  CASE tok = "Y" ->
               IF \A k \in 0..3 : IsDigit(At(s, i + k)) THEN <<4>> ELSE <<>>
          [] tok = "m" ->
               (IF \/ (c1 = "1" /\ c2 \in {"0", "1", "2"})
                   \/ (c1 = "0" /\ nz(c2))
                THEN <<2>> ELSE <<>>)
               \o (IF nz(c1) THEN <<1>> ELSE <<>>)
          [] tok = "d" ->
               (IF \/ (c1 = "3" /\ c2 \in {"0", "1"})
                   \/ (c1 \in {"1", "2"} /\ IsDigit(c2))
                   \/ (c1 = "0" /\ nz(c2))
                THEN <<2>> ELSE <<>>)
               \o (IF nz(c1) THEN <<1>> ELSE <<>>)
               \o (IF c1 = " " /\ nz(c2) THEN <<2>> ELSE <<>>)
          [] OTHER -> IF c1 = tok THEN <<1>> ELSE <<>>

NoMatch == [ok |-> FALSE, end |-> 0, g |-> <<>>]

RECURSIVE ReMatch(_, _, _, _, _), TryAlts(_, _, _, _, _, _, _)
\* re.match of the format's regex at position i: the first match in the
\* engine's order; g collects the groups as <<directive, text>> pairs.
ReMatch(fmt, k, s, i, g) ==
    IF k > Len(fmt) THEN [ok |-> TRUE, end |-> i, g |-> g]
    ELSE TryAlts(fmt, k, s, i, g, DirectiveAlts(fmt[k], s, i), 1)
TryAlts(fmt, k, s, i, g, alts, j) ==
    IF j > Len(alts) THEN NoMatch
    ELSE LET r == ReMatch(fmt, k + 1, s, i + alts[j],
                          Append(g, <<fmt[k], Slice(s, i, alts[j])>>))
         IN  IF r.ok THEN r ELSE TryAlts(fmt, k, s, i, g, alts, j + 1)

Group(g, tok) == g[CHOOSE n \in 1..Len(g) : g[n][1] = tok][2]

IsLeap(y) == (y % 4 = 0) /\ ((y % 100 # 0) \/ (y % 400 = 0))
DaysInMonth(y, m) ==
    CASE m \in {4, 6, 9, 11} -> 30
      [] m = 2 -> IF IsLeap(y) THEN 29 ELSE 28
      [] OTHER -> 31

ValueError == [ok |-> FALSE, exc |-> "ValueError", year |-> 0, month |-> 0, day |-> 0]

\* datetime.strptime(s, fmt): a date, or ValueError
strptime(s, fmt) ==
    LET r == ReMatch(fmt, 1, s, 1, <<>>)
    IN  IF ~r.ok THEN ValueError                  \* does not match format
        ELSE IF r.end # Len(s) + 1 THEN ValueError \* unconverted data remains
        ELSE LET y == ToInt(Group(r.g, "Y"))
                 m == ToInt(strip(Group(r.g, "m")))
                 d == ToInt(strip(Group(r.g, "d")))
             IN  IF y < 1 \/ d > DaysInMonth(y, m) THEN ValueError
                 ELSE [ok |-> TRUE, exc |-> "", year |-> y, month |-> m, day |-> d]

RECURSIVE Digits(_, _)
\* n written with w decimal digits, zero-padded
Digits(n, w) ==
    IF w = 0 THEN <<>>
    ELSE Append(Digits(n \div 10, w - 1), DigitChars[(n % 10) + 1])

\* dt.strftime("%Y-%m-%d")
strftime(dt) ==
    Digits(dt.year, 4) \o <<"-">> \o Digits(dt.month, 2) \o <<"-">> \o Digits(dt.day, 2)

(***************************************************************************)
(* carddav.py: normalize_bday; birthdays.py: validate_birthdate            *)
(***************************************************************************)
\* Years below this are "year unknown" placeholders (1604)
MinYear == 1900

\* A call's outcome: the exception it raised ("" if it returned) and the value
Returned(v) == [exc |-> "", value |-> v]
Raised(e)   == [exc |-> e, value |-> None]

RECURSIVE NormalizeFrom(_, _, _)
\* The loop over the two formats: a ValueError moves on to the next format
\* (any other exception leaves the function), a parsed year below MinYear
\* returns None at once.
NormalizeFrom(bday, fmts, k) ==
    IF k > Len(fmts) THEN Returned(None)
    ELSE LET dt == strptime(bday, fmts[k])
         IN  IF dt.exc = "ValueError" THEN NormalizeFrom(bday, fmts, k + 1)
             ELSE IF dt.exc # "" THEN Raised(dt.exc)
             ELSE IF dt.year < MinYear THEN Returned(None)
             ELSE Returned(strftime(strptime(bday, fmts[k])))

\* normalize_bday without the strip() of its first line
normalize_bday_nostrip(bday) == NormalizeFrom(bday, <<CompactFmt, HyphenFmt>>, 1)

normalize_bday(bday) == NormalizeFrom(strip(bday), <<CompactFmt, HyphenFmt>>, 1)

validate_birthdate(date_str) == strptime(date_str, HyphenFmt).ok

(***************************************************************************)
(* The date functions on one input string                                  *)
(***************************************************************************)
\* Most whitespace characters put before and after a date
MaxPad == 1

RECURSIVE Pad(_)
Pad(n) == IF n = 0 THEN <<>> ELSE <<" ">> \o Pad(n - 1)

YearTexts == {<<"1","6","0","4">>, <<"1","8","9","9">>, <<"1","9","0","0">>,
              <<"1","9","8","5">>, <<"2","0","2","4">>, <<"0","0","0","0">>,
              <<"9","8","5">>}
MonthTexts == {<<"0","1">>, <<"0","2">>, <<"2">>, <<"0","6">>, <<"1","2">>,
               <<"1","3">>, <<"0","0">>, <<"1">>}
DayTexts == {<<"2","9">>, <<"3","0">>, <<"3","1">>, <<"1">>, <<"0","1">>,
             <<"5">>, <<" ","5">>, <<"0","0">>, <<"3","2">>}
SepTexts == {<<>>, <<"-">>, <<"/">>}
OtherTexts == {<<>>, <<"n","o","t","-","a","-","d","a","t","e">>,
               <<"0","1","-","0","1","-","2","0","2","4">>,
               <<"-","-","0","6","3","0">>,
               <<"1","9","8","5","-","0","6","-","3","0","T","0","0">>}

DateInputs ==
    {Pad(a) \o y \o s1 \o m \o s2 \o d \o Pad(b) :
        a \in 0..MaxPad, b \in 0..MaxPad, y \in YearTexts, s1 \in SepTexts,
        m \in MonthTexts, s2 \in SepTexts, d \in DayTexts}
    \cup OtherTexts

\* Each tool is a process of its own: while one runs, the state of the others
\* stays as below.
DateIdle == dpc = "idle" /\ raw = <<>> /\ norm = Returned(None) /\ valid = FALSE
FetchIdle ==
    /\ fpc = "idle" /\ page = 1 /\ results = <<>> /\ requested = <<>>
    /\ served = <<>> /\ fetch_out = NoTable
UpdIdle ==
    /\ upc = "idle" /\ ufile = <<>> /\ silent = FALSE /\ urow = 1 /\ puts = <<>>
    /\ ulog = <<>> /\ uerr = ""
MatchIdle ==
    /\ mpc = "idle" /\ cfg = <<>> /\ mfile = <<>> /\ listing = <<>> /\ rows = <<>>
    /\ sleep = <<>> /\ card_urls = <<>> /\ cidx = 1 /\ updated_rows = <<>>
    /\ events = <<>> /\ mlog = <<>> /\ error = "" /\ match_out = NoTable

CallNormalize ==
    /\ dpc = "input"
    /\ norm' = normalize_bday(raw)
    /\ dpc' = "normalized"
    /\ UNCHANGED <<raw, valid>>

CallValidate ==
    /\ dpc = "input"
    /\ valid' = validate_birthdate(raw)
    /\ dpc' = "validated"
    /\ UNCHANGED <<raw, norm>>

InitDates ==
    /\ dpc = "input" /\ raw \in DateInputs /\ norm = Returned(None) /\ valid = FALSE
    /\ FetchIdle /\ UpdIdle /\ MatchIdle

NextDates ==
    \/ CallNormalize /\ UNCHANGED <<fetchVars, updVars, matchVars>>
    \/ CallValidate /\ UNCHANGED <<fetchVars, updVars, matchVars>>

SpecDates == InitDates /\ [][NextDates]_vars

(***************************************************************************)
(* birthdays.py --fetch: get_people_without_birthdate and the table write  *)
(***************************************************************************)
\* The directory has at most this many pages
MaxPages == 3

\* dict.get(key, default) on a JSON object (a record whose fields are the
\* keys that are present)
Get(obj, key, default) == IF key \in DOMAIN obj THEN obj[key] ELSE default

P1 == [id |-> <<"1">>, name |-> <<"A","l">>]
P2 == [id |-> <<"2">>, name |-> <<"B","o">>, birthDate |-> None]
P3 == [id |-> <<"3">>, name |-> <<>>]
P4 == [id |-> <<"4">>, name |-> <<"C","y">>,
       birthDate |-> <<"1","9","9","0","-","0","1","-","0","1">>]
P5 == [id |-> <<"5">>, name |-> <<"D","i">>, birthDate |-> <<>>]
P6 == [id |-> <<"6">>, birthDate |-> <<>>]

PeopleLists == {<<>>, <<P1>>, <<P4, P2>>, <<P3, P5, P6>>, <<P2, P1>>}

\* The JSON bodies of a successful listing answer
PageBodies ==
    {[people |-> l, hasNextPage |-> h] : l \in PeopleLists, h \in BOOLEAN}
    \cup {[people |-> l] : l \in PeopleLists}
    \cup {[hasNextPage |-> h] : h \in BOOLEAN}

\* person.get("name") and not person.get("birthDate"), with name only
KeepPerson_NameOnly(person) == Truthy(Get(person, "name", None))

\* person.get("name") and not person.get("birthDate")
KeepPerson(person) ==
    Truthy(Get(person, "name", None)) /\ ~Truthy(Get(person, "birthDate", None))

\* the persons of one page appended to results
FilterPage(body) == SelectSeq(Get(body, "people", <<>>), KeepPerson)

\* requests.get answers a status other than 200: raise_for_status raises
FetchPageError ==
    /\ fpc = "paging"
    /\ page <= MaxPages
    /\ requested' = Append(requested, page)
    /\ fpc' = "crashed"
    /\ UNCHANGED <<page, results, served, fetch_out>>

\* One turn of the while loop: request the page, filter it, go on or stop
FetchPage ==
    /\ fpc = "paging"
    /\ page <= MaxPages
    /\ \E body \in PageBodies :
          /\ page = MaxPages => ~Get(body, "hasNextPage", FALSE)
          /\ requested' = Append(requested, page)
          /\ served' = Append(served, body)
          /\ results' = results \o FilterPage(body)
          /\ IF ~Get(body, "hasNextPage", FALSE)
             THEN fpc' = "returned" /\ page' = page
             ELSE fpc' = "paging" /\ page' = page + 1
    /\ UNCHANGED fetch_out

TableHeader == <<<<"i","d">>, <<"n","a","m","e">>, <<"b","i","r","t","h","D","a","t","e">>>>

\* __main__ with --fetch: the header, then one line per person
WriteFetchTable ==
    /\ fpc = "returned"
    /\ fetch_out' = <<TableHeader>>
                     \o [i \in 1..Len(results) |-> <<results[i].id, results[i].name, <<>>>>]
    /\ fpc' = "done"
    /\ UNCHANGED <<page, results, requested, served>>

InitFetch ==
    /\ fpc = "paging" /\ page = 1 /\ results = <<>> /\ requested = <<>>
    /\ served = <<>> /\ fetch_out = NoTable
    /\ DateIdle /\ UpdIdle /\ MatchIdle

NextFetch ==
    \/ FetchPageError /\ UNCHANGED <<dateVars, updVars, matchVars>>
    \/ FetchPage /\ UNCHANGED <<dateVars, updVars, matchVars>>
    \/ WriteFetchTable /\ UNCHANGED <<dateVars, updVars, matchVars>>

SpecFetch == InitFetch /\ [][NextFetch]_vars

\* A record with a non-empty name and an absent or empty birthDate
NamedWithoutBirthDate(person) ==
    /\ "name" \in DOMAIN person
    /\ person.name \notin {<<>>, None}
    /\ ("birthDate" \in DOMAIN person => person.birthDate \in {<<>>, None})

RECURSIVE ConcatKept(_)
\* page by page, the records of each page that are named and without birthDate
ConcatKept(pages) ==
    IF pages = <<>> THEN <<>>
    ELSE ConcatKept(SubSeq(pages, 1, Len(pages) - 1))
         \o (IF "people" \in DOMAIN pages[Len(pages)]
             THEN SelectSeq(pages[Len(pages)].people, NamedWithoutBirthDate)
             ELSE <<>>)

HasNext(body) == "hasNextPage" \in DOMAIN body /\ body.hasNextPage

\* C3: pages are requested in the order 1, 2, 3, ...; no page is requested
\* after one whose hasNextPage is false or absent (so a terminal page is always
\* the last one served); and once the loop has ended on such a page, the result
\* is the concatenation, in page order, of each served page's records with a
\* non-empty name and an absent or empty birthDate.
C3_Paging ==
    /\ requested = [i \in 1..Len(requested) |-> i]
    /\ \A i \in 1..Len(served) : i < Len(served) => HasNext(served[i])
    /\ (fpc \in {"returned", "done"} =>
          /\ Len(served) >= 1 /\ ~HasNext(served[Len(served)])
          /\ Len(requested) = Len(served)
          /\ results = ConcatKept(served))

\* C3 witness: a run over two or more pages ended, kept records of different
\* pages and dropped at least one.
C3_Witness ==
    /\ fpc = "done"
    /\ Len(served) >= 2
    /\ \E i, j \in 1..Len(served) :
          /\ i < j
          /\ FilterPage(served[i]) # <<>> /\ FilterPage(served[j]) # <<>>
          /\ Len(FilterPage(served[j])) < Len(Get(served[j], "people", <<>>))

(***************************************************************************)
(* birthdays.py --update: update_birthdates                                *)
(***************************************************************************)
\* Most data rows of an input table
MaxUpdateRows == 3

RowEmpty    == <<>>
RowShort    == <<<<"7">>, <<"A","l">>>>
RowBlank    == <<<<"1">>, <<"A","l">>, <<" ">>>>
RowGood     == <<<<" ","2">>, <<"B","o">>,
                 <<" ","1","9","9","0","-","0","2","-","2","8"," ">>>>
RowLeapDay  == <<<<"3">>, <<"C","y">>, <<"2","0","2","4","-","0","2","-","2","9">>>>
RowUnpadded == <<<<"4">>, <<"D","i">>, <<"2","0","2","4","-","1","-","5">>>>
RowOldYear  == <<<<"5">>, <<"E","d">>, <<"1","6","0","4","-","0","1","-","0","1">>>>
RowBadDate  == <<<<"6">>, <<"A","l">>, <<"0","1","-","0","1","-","2","0","2","4">>>>
RowExtra    == <<<<"8">>, <<"B","o">>,
                 <<"1","9","9","0","-","0","2","-","2","8">>, <<"x">>>>

UpdateRowPool == {RowEmpty, RowShort, RowBlank, RowGood, RowLeapDay, RowUnpadded,
                  RowOldYear, RowBadDate, RowExtra}

RECURSIVE SeqsUpTo(_, _)
\* the sequences of at most n elements of S
SeqsUpTo(S, n) ==
    IF n = 0 THEN {<<>>}
    ELSE LET shorter == SeqsUpTo(S, n - 1)
         IN  shorter \cup {Append(s, x) : s \in shorter, x \in S}

UpdateFiles ==
    {<<>>} \cup {<<TableHeader>> \o body : body \in SeqsUpTo(UpdateRowPool, MaxUpdateRows)}

\* [cell.strip() for cell in row]
StripCells(row) == [i \in 1..Len(row) |-> strip(row[i])]

\* The answers of the people endpoint to a PUT
PutStatuses == {200, 500}

\* __main__ with --update: next(reader, None) skips the header
SkipHeader ==
    /\ upc = "start"
    /\ urow' = IF ufile = <<>> THEN 1 ELSE 2
    /\ upc' = "rows"
    /\ UNCHANGED <<ufile, silent, puts, ulog, uerr>>

\* if not row or len(row) < 3: continue
SkipMalformedRow ==
    /\ upc = "rows" /\ urow <= Len(ufile)
    /\ Len(ufile[urow]) < 3
    /\ urow' = urow + 1
    /\ UNCHANGED <<upc, ufile, silent, puts, ulog, uerr>>

\* person_id, name, birthdate = [...] with more than three cells
UnpackError ==
    /\ upc = "rows" /\ urow <= Len(ufile)
    /\ Len(ufile[urow]) > 3
    /\ upc' = "crashed"
    /\ uerr' = "ValueError"
    /\ UNCHANGED <<ufile, silent, urow, puts, ulog>>

\* if not birthdate: continue
SkipEmptyBirthdate ==
    /\ upc = "rows" /\ urow <= Len(ufile)
    /\ Len(ufile[urow]) = 3
    /\ StripCells(ufile[urow])[3] = <<>>
    /\ urow' = urow + 1
    /\ UNCHANGED <<upc, ufile, silent, puts, ulog, uerr>>

\* if not validate_birthdate(birthdate): warn and continue
SkipInvalidBirthdate ==
    /\ upc = "rows" /\ urow <= Len(ufile)
    /\ Len(ufile[urow]) = 3
    /\ LET cells == StripCells(ufile[urow])
       IN  /\ cells[3] # <<>>
           /\ ~validate_birthdate(cells[3])
           /\ ulog' = Append(ulog, [row |-> urow, what |-> "skipped"])
    /\ urow' = urow + 1
    /\ UNCHANGED <<upc, ufile, silent, puts, uerr>>

\* requests.put answers: report the row as updated or as failed
PutBirthdate ==
    /\ upc = "rows" /\ urow <= Len(ufile)
    /\ Len(ufile[urow]) = 3
    /\ LET cells == StripCells(ufile[urow])
       IN  /\ cells[3] # <<>>
           /\ validate_birthdate(cells[3])
           /\ \E status \in PutStatuses :
                 /\ puts' = Append(puts, [row |-> urow, id |-> cells[1],
                                          birthDate |-> cells[3], status |-> status])
                 /\ ulog' = IF status = 200
                            THEN IF silent THEN ulog
                                 ELSE Append(ulog, [row |-> urow, what |-> "updated"])
                            ELSE Append(ulog, [row |-> urow, what |-> "failed"])
    /\ urow' = urow + 1
    /\ UNCHANGED <<upc, ufile, silent, uerr>>

\* requests.put raises (no connection): nothing catches it
PutRaises ==
    /\ upc = "rows" /\ urow <= Len(ufile)
    /\ Len(ufile[urow]) = 3
    /\ LET cells == StripCells(ufile[urow])
       IN  cells[3] # <<>> /\ validate_birthdate(cells[3])
    /\ upc' = "crashed"
    /\ uerr' = "ConnectionError"
    /\ UNCHANGED <<ufile, silent, urow, puts, ulog>>

\* the reader is exhausted
FinishUpdate ==
    /\ upc = "rows" /\ urow > Len(ufile)
    /\ upc' = "done"
    /\ UNCHANGED <<ufile, silent, urow, puts, ulog, uerr>>

InitUpdate ==
    /\ upc = "start" /\ ufile \in UpdateFiles /\ silent \in BOOLEAN /\ urow = 1
    /\ puts = <<>> /\ ulog = <<>> /\ uerr = ""
    /\ DateIdle /\ FetchIdle /\ MatchIdle

NextUpdate ==
    \/ SkipHeader /\ UNCHANGED <<dateVars, fetchVars, matchVars>>
    \/ SkipMalformedRow /\ UNCHANGED <<dateVars, fetchVars, matchVars>>
    \/ UnpackError /\ UNCHANGED <<dateVars, fetchVars, matchVars>>
    \/ SkipEmptyBirthdate /\ UNCHANGED <<dateVars, fetchVars, matchVars>>
    \/ SkipInvalidBirthdate /\ UNCHANGED <<dateVars, fetchVars, matchVars>>
    \/ PutBirthdate /\ UNCHANGED <<dateVars, fetchVars, matchVars>>
    \/ PutRaises /\ UNCHANGED <<dateVars, fetchVars, matchVars>>
    \/ FinishUpdate /\ UNCHANGED <<dateVars, fetchVars, matchVars>>

SpecUpdate == InitUpdate /\ [][NextUpdate]_vars

(***************************************************************************)
(* carddav.py: load_config, __main__, fetch_birthdates_from_carddav        *)
(***************************************************************************)
\* Most entries of the address book
MaxCards == 2

\* Python values of the delay: None, a float, a str
PyNone     == [t |-> "NoneType", v |-> 0]
PyFloat(x) == [t |-> "float", v |-> x]
PyStr(x)   == [t |-> "str", v |-> x]

\* sleep of immich.ini, CARDDAV_SLEEP of the environment, --sleep (default 0)
SleepSettings ==
    {[ini |-> PyNone,     env |-> PyNone,   arg |-> PyFloat(0)],
     [ini |-> PyFloat(0), env |-> PyNone,   arg |-> PyFloat(0)],
     [ini |-> PyFloat(2), env |-> PyNone,   arg |-> PyFloat(0)],
     [ini |-> PyNone,     env |-> PyStr(1), arg |-> PyFloat(0)],
     [ini |-> PyNone,     env |-> PyNone,   arg |-> PyFloat(3)],
     [ini |-> PyFloat(2), env |-> PyStr(1), arg |-> PyFloat(3)]}

\* whether URL, username and password end up set (file, environment or argv)
CredSettings ==
    {[url |-> TRUE,  user |-> TRUE,  pass |-> TRUE],
     [url |-> FALSE, user |-> TRUE,  pass |-> TRUE],
     [url |-> TRUE,  user |-> FALSE, pass |-> TRUE],
     [url |-> TRUE,  user |-> TRUE,  pass |-> FALSE]}

NoConfig == [file |-> FALSE, creds |-> [url |-> FALSE, user |-> FALSE, pass |-> FALSE],
             sleeps |-> [ini |-> PyNone, env |-> PyNone, arg |-> PyFloat(0)]]

\* config.getfloat("carddav", "sleep", fallback=os.environ.get("CARDDAV_SLEEP"))
LoadedSleep(s) == IF s.ini.t = "float" THEN s.ini ELSE s.env

\* if args.sleep: CARDDAV_SLEEP = args.sleep
ResolvedSleep(s) == IF s.arg.v # 0 THEN s.arg ELSE LoadedSleep(s)

MRowAl       == <<<<"1">>, <<"A","l">>, <<>>>>
MRowAlPadded == <<<<"2">>, <<" ","a","l"," ">>, <<>>>>
MRowBo       == <<<<"3">>, <<"B","o">>, <<>>>>
MRowShort    == <<<<"7">>, <<"A","l">>>>
MRowExtra    == <<<<"8">>, <<"B","o">>, <<>>, <<"x">>>>

\* The input tables of the matcher
MatchFiles ==
    {<<>>,
     <<TableHeader>>,
     <<TableHeader, MRowAl>>,
     <<TableHeader, MRowBo, MRowAlPadded>>,
     <<TableHeader, MRowAl, MRowAlPadded>>,
     <<TableHeader, MRowShort, MRowAl, MRowBo>>,
     <<TableHeader, MRowExtra, MRowAl>>,
     <<TableHeader, MRowAl, MRowExtra>>}

\* One D:response of the PROPFIND answer with the resource behind its href:
\* the status of its GET, whether vobject parses the body, and the
\* properties of the vCard (fn, bday; only those present)
Resource(href, status, parses, props) ==
    [href |-> href, status |-> status, parses |-> parses, props |-> props]

KNoHref    == Resource(FALSE, 200, FALSE, [x |-> <<>>])
KGone      == Resource(TRUE, 404, FALSE, [x |-> <<>>])
KGarbage   == Resource(TRUE, 200, FALSE, [x |-> <<>>])
KNoFn      == Resource(TRUE, 200, TRUE,
                       [bday |-> <<"1","9","8","5","0","6","3","0">>])
KAl        == Resource(TRUE, 200, TRUE,
                       [fn |-> <<"A","l"," ">>,
                        bday |-> <<"1","9","8","5","0","6","3","0">>])
KAlNick    == Resource(TRUE, 200, TRUE,
                       [fn |-> <<"A","L"," ","(","x",")">>,
                        bday |-> <<"1","9","9","0","-","0","2","-","2","8">>])
KAlNoBday  == Resource(TRUE, 200, TRUE, [fn |-> <<"A","l">>])
KAlNoYear  == Resource(TRUE, 200, TRUE,
                       [fn |-> <<"A","l">>, bday |-> <<"-","-","0","6","3","0">>])
KBo        == Resource(TRUE, 200, TRUE,
                       [fn |-> <<"B","o">>,
                        bday |-> <<"1","9","8","5","-","0","6","-","3","0">>])

ResourcePool == {KNoHref, KGone, KGarbage, KNoFn, KAl, KAlNick, KAlNoBday,
                 KAlNoYear, KBo}

AddressBooks == SeqsUpTo(ResourcePool, MaxCards)

RECURSIVE ReSubParens(_, _)
\* re.sub(r"\s*\([^)]*\)", "", s) from position i: at the leftmost position
\* where whitespace (or none) is followed by "(" and a later ")", everything
\* up to the first ")" is dropped
ReSubParens(s, i) ==
    IF i > Len(s) THEN <<>>
    ELSE LET rest  == {j \in i..Len(s) : ~IsSpace(s[j])}
             open  == IF rest = {} THEN 0
                      ELSE CHOOSE j \in rest : \A k \in rest : j <= k
             close == IF open = 0 \/ At(s, open) # "(" THEN {}
                      ELSE {j \in (open + 1)..Len(s) : s[j] = ")"}
         IN  IF close # {}
             THEN ReSubParens(s, (CHOOSE j \in close : \A k \in close : j <= k) + 1)
             ELSE <<s[i]>> \o ReSubParens(s, i + 1)

\* vcard_clean_name: strip, lower, drop the parenthesised parts
CleanName(fn) == ReSubParens(lower(strip(fn)), 1)

HasProp(card, key) == key \in DOMAIN card.props

RECURSIVE ScanRowsToLast(_, _, _)
\* the loop over the rows without its break: the last matching row wins
ScanRowsToLast(card, rws, k) ==
    IF k > Len(rws) THEN [exc |-> "", found |-> None, at |-> 0]
    ELSE IF Len(rws[k]) # 3 THEN [exc |-> "ValueError", found |-> None, at |-> k]
    ELSE IF ~HasProp(card, "fn") THEN [exc |-> "AttributeError", found |-> None, at |-> k]
    ELSE LET later == ScanRowsToLast(card, rws, k + 1)
         IN  IF later.exc # "" \/ later.at # 0 THEN later
             ELSE IF /\ CleanName(card.props.fn) = lower(strip(rws[k][2]))
                     /\ HasProp(card, "bday")
                  THEN [exc |-> normalize_bday(card.props.bday).exc,
                        found |-> normalize_bday(card.props.bday).value, at |-> k]
                  ELSE later

RECURSIVE ScanRows(_, _, _)
\* for person_id, name, birthdate in rows: ... break -- from row k on. The
\* outcome: the exception raised ("" if none), found_birthdate, and the row
\* the loop variables are left at by the break (0: no break).
ScanRows(card, rws, k) ==
    IF k > Len(rws) THEN [exc |-> "", found |-> None, at |-> 0]
    \* the tuple unpacking of a row of more than three cells
    ELSE IF Len(rws[k]) # 3 THEN [exc |-> "ValueError", found |-> None, at |-> k]
    \* vcard_name.value with vcard_name None
    ELSE IF ~HasProp(card, "fn") THEN [exc |-> "AttributeError", found |-> None, at |-> k]
    ELSE IF /\ CleanName(card.props.fn) = lower(strip(rws[k][2]))
            /\ HasProp(card, "bday")
         THEN [exc |-> normalize_bday(card.props.bday).exc,
               found |-> normalize_bday(card.props.bday).value, at |-> k]
         ELSE ScanRows(card, rws, k + 1)

\* updated_rows after the card: [person_id, name, found_birthdate] appended
\* when found_birthdate is set (name is the trimmed name)
Emitted(scan, rws, out) ==
    IF Truthy(scan.found)
    THEN Append(out, <<rws[scan.at][1], strip(rws[scan.at][2]), scan.found>>)
    ELSE out

\* load_config: immich.ini does not exist
MainNoConfigFile ==
    /\ mpc = "main"
    /\ cfg' = NoConfig
    /\ mpc' = "crashed"
    /\ error' = "FileNotFoundError"
    /\ UNCHANGED <<mfile, listing, rows, sleep, card_urls, cidx, updated_rows,
                   events, mlog, match_out>>

\* sys.exit: URL, username or password not set
MainNoCredentials ==
    /\ mpc = "main"
    /\ \E c \in CredSettings, s \in SleepSettings :
          /\ ~(c.url /\ c.user /\ c.pass)
          /\ cfg' = [file |-> TRUE, creds |-> c, sleeps |-> s]
    /\ mpc' = "exited"
    /\ UNCHANGED <<mfile, listing, rows, sleep, card_urls, cidx, updated_rows,
                   events, mlog, error, match_out>>

\* __main__ up to the call of fetch_birthdates_from_carddav: the delay is
\* resolved, the header is skipped, rows of fewer than three cells are dropped
MainStart ==
    /\ mpc = "main"
    /\ \E c \in CredSettings, s \in SleepSettings :
          /\ c.url /\ c.user /\ c.pass
          /\ cfg' = [file |-> TRUE, creds |-> c, sleeps |-> s]
          /\ sleep' = ResolvedSleep(s)
    /\ rows' = SelectSeq(SubSeq(mfile, 2, Len(mfile)), LAMBDA r : Len(r) >= 3)
    /\ mpc' = "list"
    /\ UNCHANGED <<mfile, listing, card_urls, cidx, updated_rows, events, mlog,
                   error, match_out>>

\* PROPFIND answers an error status: raise_for_status raises
ListError ==
    /\ mpc = "list"
    /\ events' = Append(events, "propfind")
    /\ mpc' = "crashed"
    /\ error' = "HTTPError"
    /\ UNCHANGED <<cfg, mfile, listing, rows, sleep, card_urls, cidx,
                   updated_rows, mlog, match_out>>

\* PROPFIND answers: the hrefs of the D:response elements that have one
ListCards ==
    /\ mpc = "list"
    /\ events' = Append(events, "propfind")
    /\ card_urls' = SelectSeq(listing, LAMBDA r : r.href)
    /\ mpc' = "cards"
    /\ UNCHANGED <<cfg, mfile, listing, rows, sleep, cidx, updated_rows, mlog,
                   error, match_out>>

\* GET of a card answers an error status: raise_for_status raises
CardHttpError ==
    /\ mpc = "cards" /\ cidx <= Len(card_urls)
    /\ card_urls[cidx].status # 200
    /\ events' = Append(events, "get")
    /\ mpc' = "crashed"
    /\ error' = "HTTPError"
    /\ UNCHANGED <<cfg, mfile, listing, rows, sleep, card_urls, cidx,
                   updated_rows, mlog, match_out>>

\* vobject.readOne raises: except Exception: continue
CardUnparseable ==
    /\ mpc = "cards" /\ cidx <= Len(card_urls)
    /\ card_urls[cidx].status = 200
    /\ ~card_urls[cidx].parses
    /\ events' = Append(events, "get")
    /\ cidx' = cidx + 1
    /\ UNCHANGED <<mpc, cfg, mfile, listing, rows, sleep, card_urls,
                   updated_rows, mlog, error, match_out>>

\* the loop over the rows raises
CardScanRaises ==
    /\ mpc = "cards" /\ cidx <= Len(card_urls)
    /\ card_urls[cidx].status = 200
    /\ card_urls[cidx].parses
    /\ LET scan == ScanRows(card_urls[cidx], rows, 1)
       IN  /\ scan.exc # ""
           /\ error' = scan.exc
    /\ events' = Append(events, "get")
    /\ mpc' = "crashed"
    /\ UNCHANGED <<cfg, mfile, listing, rows, sleep, card_urls, cidx,
                   updated_rows, mlog, match_out>>

\* the card is matched, then "if sleep > 0" compares None or a str with 0
CardSleepRaises ==
    /\ mpc = "cards" /\ cidx <= Len(card_urls)
    /\ card_urls[cidx].status = 200
    /\ card_urls[cidx].parses
    /\ sleep.t # "float"
    /\ LET scan == ScanRows(card_urls[cidx], rows, 1)
       IN  /\ scan.exc = ""
           /\ updated_rows' = Emitted(scan, rows, updated_rows)
           /\ mlog' = IF Truthy(scan.found)
                      THEN Append(mlog, [card |-> cidx, row |-> scan.at])
                      ELSE mlog
    /\ events' = Append(events, "get")
    /\ mpc' = "crashed"
    /\ error' = "TypeError"
    /\ UNCHANGED <<cfg, mfile, listing, rows, sleep, card_urls, cidx, match_out>>

\* one whole turn of the loop over card_urls: fetch, parse, match, sleep
CardDone ==
    /\ mpc = "cards" /\ cidx <= Len(card_urls)
    /\ card_urls[cidx].status = 200
    /\ card_urls[cidx].parses
    /\ sleep.t = "float"
    /\ LET scan == ScanRows(card_urls[cidx], rows, 1)
       IN  /\ scan.exc = ""
           /\ updated_rows' = Emitted(scan, rows, updated_rows)
           /\ mlog' = IF Truthy(scan.found)
                      THEN Append(mlog, [card |-> cidx, row |-> scan.at])
                      ELSE mlog
    /\ events' = IF sleep.v > 0 THEN events \o <<"get", "sleep">>
                 ELSE Append(events, "get")
    /\ cidx' = cidx + 1
    /\ UNCHANGED <<mpc, cfg, mfile, listing, rows, sleep, card_urls, error,
                   match_out>>

\* return updated_rows; __main__ writes the header and the rows
WriteMatchTable ==
    /\ mpc = "cards" /\ cidx > Len(card_urls)
    /\ match_out' = <<TableHeader>> \o updated_rows
    /\ mpc' = "done"
    /\ UNCHANGED <<cfg, mfile, listing, rows, sleep, card_urls, cidx,
                   updated_rows, events, mlog, error>>

InitMatch ==
    /\ mpc = "main" /\ cfg = NoConfig /\ mfile \in MatchFiles
    /\ listing \in AddressBooks /\ rows = <<>> /\ sleep = PyNone
    /\ card_urls = <<>> /\ cidx = 1 /\ updated_rows = <<>> /\ events = <<>>
    /\ mlog = <<>> /\ error = "" /\ match_out = NoTable
    /\ DateIdle /\ FetchIdle /\ UpdIdle

NextMatch ==
    \/ MainNoConfigFile /\ UNCHANGED <<dateVars, fetchVars, updVars>>
    \/ MainNoCredentials /\ UNCHANGED <<dateVars, fetchVars, updVars>>
    \/ MainStart /\ UNCHANGED <<dateVars, fetchVars, updVars>>
    \/ ListError /\ UNCHANGED <<dateVars, fetchVars, updVars>>
    \/ ListCards /\ UNCHANGED <<dateVars, fetchVars, updVars>>
    \/ CardHttpError /\ UNCHANGED <<dateVars, fetchVars, updVars>>
    \/ CardUnparseable /\ UNCHANGED <<dateVars, fetchVars, updVars>>
    \/ CardScanRaises /\ UNCHANGED <<dateVars, fetchVars, updVars>>
    \/ CardSleepRaises /\ UNCHANGED <<dateVars, fetchVars, updVars>>
    \/ CardDone /\ UNCHANGED <<dateVars, fetchVars, updVars>>
    \/ WriteMatchTable /\ UNCHANGED <<dateVars, fetchVars, updVars>>

SpecMatch == InitMatch /\ [][NextMatch]_vars

(***************************************************************************)
(* Properties of the date functions                                        *)
(***************************************************************************)
\* s is exactly four digits, "-", two digits, "-", two digits
IsoShaped(s) ==
    /\ Len(s) = 10
    /\ s[5] = "-" /\ s[8] = "-"
    /\ \A i \in {1, 2, 3, 4, 6, 7, 9, 10} : IsDigit(s[i])

IsoYear(s)  == ToInt(SubSeq(s, 1, 4))
IsoMonth(s) == ToInt(SubSeq(s, 6, 7))
IsoDay(s)   == ToInt(SubSeq(s, 9, 10))

\* s is YYYY-MM-DD and names a day of the calendar
IsoDate(s) ==
    /\ IsoShaped(s)
    /\ IsoYear(s) >= 1
    /\ IsoMonth(s) \in 1..12
    /\ IsoDay(s) \in 1..DaysInMonth(IsoYear(s), IsoMonth(s))

\* text t is the date dt written as zero-padded YYYY-MM-DD
WritesDate(t, dt) ==
    /\ IsoShaped(t)
    /\ IsoYear(t) = dt.year /\ IsoMonth(t) = dt.month /\ IsoDay(t) = dt.day

\* The first of the two formats, compact then hyphenated, that parses the
\* trimmed input (ValueError if neither does)
FirstParse(s) ==
    LET c == strptime(strip(s), CompactFmt)
    IN  IF c.ok THEN c ELSE strptime(strip(s), HyphenFmt)

T19850630 == <<"1","9","8","5","0","6","3","0">>
T1985_06_30 == <<"1","9","8","5","-","0","6","-","3","0">>
T16040101 == <<"1","6","0","4","0","1","0","1">>
TNotADate == <<"n","o","t","-","a","-","d","a","t","e">>

\* C6 (as claimed): validate_birthdate accepts exactly the strings that are a
\* calendar date written as YYYY-MM-DD (four digits, two digits, two digits);
\* everything else, the empty string and non-padded fields included, is
\* rejected.
C6_ValidateExactPattern ==
    dpc = "validated" => (valid <=> IsoDate(raw))

\* C7: normalize_bday trims its input and takes the first of the formats
\* YYYYMMDD, YYYY-MM-DD that parses it: the result is None when none parses or
\* when the parsed year is below 1900, and otherwise the parsed date written as
\* zero-padded YYYY-MM-DD. The call never raises, and a returned text is a
\* fixed point of normalize_bday. The four examples of the
\* specification hold.
C7_NormalizeBday ==
    dpc = "normalized" =>
        LET p == FirstParse(raw)
        IN  /\ norm.exc = ""
            /\ (~p.ok => norm.value = None)
            /\ (p.ok /\ p.year < 1900 => norm.value = None)
            /\ (p.ok /\ p.year >= 1900 => WritesDate(norm.value, p))
            /\ (norm.value # None => normalize_bday(norm.value) = norm)
            /\ (raw = T19850630 => norm.value = T1985_06_30)
            /\ (raw = T1985_06_30 => norm.value = T1985_06_30)
            /\ (raw = T16040101 => norm.value = None)
            /\ (raw = TNotADate => norm.value = None)

\* C7 witness: a compact date with whitespace around it was normalised to a
\* hyphenated text different from the input.
C7_Witness ==
    /\ dpc = "normalized"
    /\ raw # strip(raw)
    /\ strptime(strip(raw), CompactFmt).ok
    /\ norm.exc = "" /\ norm.value # None /\ norm.value # strip(raw)

(***************************************************************************)
(* Properties of birthdays.py --update                                     *)
(***************************************************************************)
\* The birthdate convention: YYYY-MM-DD, a calendar date, year 1900 or later
ConformingBirthdate(s) == IsoDate(s) /\ IsoYear(s) >= 1900

\* C1 (as claimed), for the update requests: every birthDate sent in a PUT is
\* four digits, "-", two digits, "-", two digits, names a calendar date and has
\* a year of 1900 or later.
C1_SentBirthdatesConform ==
    \A n \in 1..Len(puts) : ConformingBirthdate(puts[n].birthDate)

\* The row's third cell, trimmed, is non-empty and is no YYYY-MM-DD date
HasInvalidBirthdate(row) ==
    Len(row) >= 3 /\ strip(row[3]) # <<>> /\ ~IsoDate(strip(row[3]))
\* The row has three cells or more and a trimmed third cell that is a date
HasValidBirthdate(row) ==
    Len(row) >= 3 /\ IsoDate(strip(row[3]))
PutFailed(i) == \E n \in 1..Len(puts) : puts[n].row = i /\ puts[n].status # 200
PutIssued(i) == \E n \in 1..Len(puts) : puts[n].row = i

\* C2 (as claimed): when the run has ended (and the network never failed to
\* answer), every row with at least three fields and a valid birthDate that
\* comes after a processed row with an invalid birthdate or a failed update has
\* had its PUT issued.
C2_FaultIsolation ==
    (upc \in {"done", "crashed"} /\ uerr # "ConnectionError") =>
        \A i, j \in 2..Len(ufile) :
            (/\ i < j /\ i < urow
             /\ HasInvalidBirthdate(ufile[i]) \/ PutFailed(i)
             /\ HasValidBirthdate(ufile[j]))
            => PutIssued(j)

\* The same for tables whose rows have at most three fields: this is what
\* update_birthdates does.
FaultIsolationThreeFields ==
    (upc \in {"done", "crashed"} /\ uerr # "ConnectionError") =>
        \A i, j \in 2..Len(ufile) :
            (/\ i < j /\ i < urow
             /\ HasInvalidBirthdate(ufile[i]) \/ PutFailed(i)
             /\ \A k \in 2..j : Len(ufile[k]) <= 3
             /\ HasValidBirthdate(ufile[j]))
            => PutIssued(j)

(***************************************************************************)
(* Properties of carddav.py                                                *)
(***************************************************************************)
\* The matcher half of the birthdate convention: every birthdate put into
\* updated_rows is YYYY-MM-DD, a calendar date, year 1900 or later.
MatcherBirthdatesConform ==
    \A n \in 1..Len(updated_rows) : ConformingBirthdate(updated_rows[n][3])

Ended == mpc \in {"done", "crashed", "exited"}
\* The configuration file exists, the credentials are set, and every request
\* was answered with success
EnvOk ==
    /\ cfg.file /\ cfg.creds.url /\ cfg.creds.user /\ cfg.creds.pass
    /\ error \notin {"HTTPError", "FileNotFoundError"}
    /\ \A n \in 1..Len(listing) : listing[n].status = 200
SleepIsNumber == sleep.t = "float"
RowsThreeFields == \A k \in 2..Len(mfile) : Len(mfile[k]) <= 3
Gets == Cardinality({n \in 1..Len(events) : events[n] = "get"})

\* the contact's normalized name equals the row's trimmed, lowercased name
NameMatch(card, row) ==
    /\ card.parses /\ "fn" \in DOMAIN card.props
    /\ CleanName(card.props.fn) = lower(strip(row[2]))
\* the contact parses and has a full name and a birthday that normalizes
Usable(card) ==
    /\ card.parses /\ "fn" \in DOMAIN card.props /\ "bday" \in DOMAIN card.props
    /\ normalize_bday(card.props.bday).value # None
MatchPairs ==
    {pr \in (1..Len(card_urls)) \X (1..Len(rows)) :
        NameMatch(card_urls[pr[1]], rows[pr[2]])}
EmittedFor(c) == \E n \in 1..Len(mlog) : mlog[n].card = c

\* C4 (as claimed): when exactly one resource's normalized name equals exactly
\* one row's normalized name and that resource has a valid birthday, the run
\* (configuration present, delay a number, every request answered, rows of
\* three fields) ends with an output table of exactly that row: its id, its
\* name and the normalized birthdate.
C4_SingleMatchEmitted ==
    (Ended /\ EnvOk /\ SleepIsNumber /\ RowsThreeFields /\ Cardinality(MatchPairs) = 1) =>
        LET pr   == CHOOSE x \in MatchPairs : TRUE
            card == card_urls[pr[1]]
            row  == rows[pr[2]]
        IN  Usable(card) =>
              /\ mpc = "done"
              /\ match_out = <<TableHeader,
                               <<row[1], strip(row[2]),
                                 normalize_bday(card.props.bday).value>>>>

\* C5 (as claimed): a resource that cannot be used is skipped without aborting
\* the run: the run (configuration present, delay a number, every request
\* answered, rows of three fields) ends normally with every listed resource
\* fetched and with a row emitted for every usable resource that matches a row.
C5_UnusableSkipped ==
    (Ended /\ EnvOk /\ SleepIsNumber /\ RowsThreeFields) =>
        /\ mpc = "done"
        /\ Gets = Len(card_urls)
        /\ \A c \in 1..Len(card_urls) :
              (Usable(card_urls[c]) /\ \E r \in 1..Len(rows) : NameMatch(card_urls[c], rows[r]))
              => EmittedFor(c)

\* C8 (as claimed): no input row appears more than once in the output table.
C8_NoRowTwice ==
    mpc = "done" =>
        \A a, b \in 1..Len(mlog) : a < b => mlog[a].row # mlog[b].row

\* C8 (amended): each emitted line comes from one resource, in resource order
\* and at most one per resource; it is the first row, in input order and
\* among all rows (matched before or not), whose trimmed, lowercased name
\* equals the contact's normalized name, the contact having a birthday; it
\* holds that row's id, its trimmed name and the normalized birthday. Every
\* processed usable resource that matches a row has its line, and the table
\* written is the header followed by these lines.
C8_FirstMatchPerResource ==
    /\ Len(mlog) = Len(updated_rows)
    /\ \A n \in 1..Len(mlog) :
          LET card == card_urls[mlog[n].card]
              row  == rows[mlog[n].row]
          IN  /\ NameMatch(card, row) /\ "bday" \in DOMAIN card.props
              /\ \A r \in 1..(mlog[n].row - 1) : ~NameMatch(card, rows[r])
              /\ normalize_bday(card.props.bday).value # None
              /\ updated_rows[n] =
                    <<row[1], strip(row[2]), normalize_bday(card.props.bday).value>>
    /\ \A a, b \in 1..Len(mlog) : a < b => mlog[a].card < mlog[b].card
    /\ \A c \in 1..(cidx - 1) :
          (Usable(card_urls[c]) /\ \E r \in 1..Len(rows) : NameMatch(card_urls[c], rows[r]))
          => EmittedFor(c)
    /\ (mpc = "done" => match_out = <<TableHeader>> \o updated_rows)

\* C8 witness: a finished run in which two resources with the same normalized
\* name both emitted the same row, the first of two rows that match.
C8_Witness ==
    /\ mpc = "done"
    /\ \E a, b \in 1..Len(mlog) :
          /\ a < b /\ mlog[a].row = mlog[b].row
          /\ \E r \in 1..Len(rows) :
                r > mlog[a].row /\ NameMatch(card_urls[mlog[a].card], rows[r])

\* C9 (as claimed): with a positive delay, while the run has not failed, every
\* GET of a resource is directly followed by one sleep and every sleep follows
\* a GET, so no two GETs happen without a delay between them.
C9_DelayAfterEveryFetch ==
    (mpc \in {"cards", "done"} /\ sleep.t = "float" /\ sleep.v > 0) =>
        \A n \in 1..Len(events) :
            /\ events[n] = "get" => (n < Len(events) /\ events[n + 1] = "sleep")
            /\ events[n] = "sleep" => (n > 1 /\ events[n - 1] = "get")

\* No delay in immich.ini, none in the environment, no --sleep
NoDelaySet ==
    /\ cfg.sleeps.ini = PyNone /\ cfg.sleeps.env = PyNone /\ cfg.sleeps.arg.v = 0

\* C10 (as claimed): with no delay set anywhere (credentials set, every
\* request answered, rows of three fields, every parsed card with a full
\* name) the run fetches every listed resource, never sleeps, ends normally
\* and writes the table with a line for every usable resource that matches.
C10_NoDelayRuns ==
    (/\ Ended /\ EnvOk /\ NoDelaySet /\ RowsThreeFields
     /\ \A n \in 1..Len(listing) : listing[n].parses => "fn" \in DOMAIN listing[n].props)
    =>  /\ mpc = "done"
        /\ Gets = Len(card_urls)
        /\ \A n \in 1..Len(events) : events[n] # "sleep"
        /\ match_out = <<TableHeader>> \o updated_rows
        /\ \A c \in 1..Len(card_urls) :
              (Usable(card_urls[c]) /\ \E r \in 1..Len(rows) : NameMatch(card_urls[c], rows[r]))
              => EmittedFor(c)

====
